---- MODULE Spec2Model ----
(***************************************************************************)
(* One Connection of jsonrpc-tcp (lib/connection.js) with its Call         *)
(* Correlator (lib/remote.js), driven by its user, its socket, the         *)
(* tokenizer and the timers it arms; and the Listener (lib/server.js)      *)
(* with the Connections it makes.                                          *)
(*                                                                         *)
(* Every operation of the code is a pure operator from a state record to   *)
(* a state record (so that one handler can call another, as the code       *)
(* does); an action applies one handler to the current state.              *)
(***************************************************************************)
EXTENDS Integers, Sequences, FiniteSets, TLC

VARIABLES
  role,          \* "client": new Connection(); "server": new Connection(socket) made by Server
  sock,          \* the socket: "idle", "connecting", "open", "ended", "closed"
  closePending,  \* the socket was destroyed and has not emitted 'close' yet
  connected,     \* this.connected (undefined reads as false)
  remote,        \* this._remote !== null
  ended,         \* end() has closed this Connection
  requestID,     \* _requestID of the Remote made last (0: no Remote was ever made)
  pending,       \* Pending Calls (_handlers entries) of every Remote that still matter
  queue,         \* this._queue
  port, host,    \* this.port, this.host
  hasCleanup,    \* this._cleanup is set
  curClose,      \* the 'close' hook of the last connect() is on the socket
  curConnect,    \* the once-'connect' hook of the last connect() is on the socket
  staleClose,    \* 'close' hooks of earlier connect() calls still on the socket
  staleConnect,  \* once-'connect' hooks of earlier connect() calls still on the socket
  timers,        \* reconnect timers, in the order they were armed
  methods,       \* this._methods: key -> handler
  services,      \* this._services of the Server
  accepted,      \* the Connections the Server made, each with the expose calls it got
  sent,          \* Requests written by the Remote made last, in order
  ncalls,        \* call() invocations so far (each gets the next token)
  called,        \* the calls whose callback has been invoked
  nconn,         \* socket.connect() invocations so far
  op,            \* the operation that ran last, with its input
  out,           \* what the last operation wrote to the socket, in order
  ev,            \* events the last operation emitted on the Connection, in order
  cbs,           \* callbacks of call() the last operation invoked, in order
  thrown         \* the last operation ended by throwing

vars == <<role, sock, closePending, connected, remote, ended, requestID, pending, queue,
          port, host, hasCleanup, curClose, curConnect, staleClose, staleConnect,
          timers, methods, services, accepted, sent, ncalls, called, nconn, op, out, ev,
          cbs, thrown>>

----------------------------------------------------------------------------
(* Bounds of the model. *)
MaxCalls == 2
MaxConnects == 2
MaxServices == 2
MaxAccepted == 2

----------------------------------------------------------------------------
(* JavaScript values, as far as the code looks at them. *)
Null == [k |-> "null"]
Undef == [k |-> "undefined"]
Num(n) == [k |-> "num", v |-> n]
Str(s) == [k |-> "str", v |-> s]
Err(m) == [k |-> "error", m |-> m]
Fn(f) == [k |-> "fn", f |-> f, this |-> Undef]
Obj(o) == [k |-> "obj", o |-> o]

\* typeof x
TypeOf(x) ==
  CASE x.k = "fn" -> "function"
    [] x.k = "undefined" -> "undefined"
    [] x.k = "num" -> "number"
    [] x.k = "str" -> "string"
    [] OTHER -> "object"

\* x as a property key, or in x + '.'
StringOf(x) ==
  CASE x.k = "str" -> x.v
    [] x.k = "null" -> "null"
    [] x.k = "undefined" -> "undefined"
    [] OTHER -> "[object Object]"

\* fn.bind(obj)
Bind(fn, obj) == [fn EXCEPT !.this = obj]

\* the enumerable properties of the service objects of this model
Props(x) ==
  IF x.k # "obj" THEN <<>>
  ELSE CASE x.o = "service" ->
              [add |-> Fn("add"), subtract |-> Fn("subtract"), pi |-> Num(3)]
         [] x.o = "other" -> [add |-> Fn("plus")]
         [] OTHER -> <<>>

\* if (x): null, undefined, 0 and "" are falsy.
Truthy(x) ==
  CASE x.k = "null" -> FALSE
    [] x.k = "undefined" -> FALSE
    [] x.k = "num" -> x.v # 0
    [] x.k = "str" -> x.v # ""
    [] OTHER -> TRUE

\* x.message for a truthy x: only an Error object has one.
MessageOf(x) == IF x.k = "error" THEN x.m ELSE Undef

\* JSON.stringify(obj): a key whose value is undefined is left out.
Stringify(obj) == [f \in {g \in DOMAIN obj : obj[g] # Undef} |-> obj[f]]

----------------------------------------------------------------------------
(* The state as one record, and back. *)
St ==
  [role |-> role, sock |-> sock, closePending |-> closePending,
   connected |-> connected, remote |-> remote, ended |-> ended,
   requestID |-> requestID,
   pending |-> pending, queue |-> queue, port |-> port, host |-> host,
   hasCleanup |-> hasCleanup, curClose |-> curClose, curConnect |-> curConnect,
   staleClose |-> staleClose, staleConnect |-> staleConnect, timers |-> timers,
   methods |-> methods, services |-> services, accepted |-> accepted,
   sent |-> sent, ncalls |-> ncalls, called |-> called, nconn |-> nconn,
   out |-> <<>>, ev |-> <<>>, cbs |-> <<>>, thrown |-> FALSE]

Becomes(s, o) ==
  /\ role' = s.role /\ sock' = s.sock /\ closePending' = s.closePending
  /\ connected' = s.connected /\ remote' = s.remote /\ ended' = s.ended
  /\ requestID' = s.requestID
  /\ pending' = s.pending /\ queue' = s.queue /\ port' = s.port /\ host' = s.host
  /\ hasCleanup' = s.hasCleanup /\ curClose' = s.curClose
  /\ curConnect' = s.curConnect /\ staleClose' = s.staleClose
  /\ staleConnect' = s.staleConnect /\ timers' = s.timers
  /\ methods' = s.methods /\ sent' = s.sent /\ ncalls' = s.ncalls
  /\ nconn' = s.nconn /\ out' = s.out /\ ev' = s.ev /\ cbs' = s.cbs
  /\ thrown' = s.thrown /\ op' = o
  /\ services' = s.services /\ accepted' = s.accepted
  /\ called' = s.called

----------------------------------------------------------------------------
(* connection.js *)

\* this.emit(name, ...)
Emit(s, e) == [s EXCEPT !.ev = Append(@, e)]

\* Connection.prototype.send
Send(s, obj) == [s EXCEPT !.out = Append(@, Stringify(obj))]

\* a throw: the rest of the running handler is skipped
Throw(s) == [s EXCEPT !.thrown = TRUE]

\* socket.end(): our side of an open socket is closed
SocketEnd(s) == IF s.sock = "open" THEN [s EXCEPT !.sock = "ended"] ELSE s

\* socket.destroy(): the socket is gone at once, its 'close' comes on the next tick
SocketDestroy(s) ==
  IF s.sock = "closed" THEN s
  ELSE [s EXCEPT !.sock = "closed", !.closePending = TRUE]

----------------------------------------------------------------------------
(* remote.js: the Call Correlator.  A call is [c, str, cb]: c is the token  *)
(* of the call() it came from (it stands for the method, the params and the *)
(* callback), str says whether its method is a string, cb whether it has a  *)
(* callback.  A Pending Call is [c, cb, id, cur, timer]: cur says its       *)
(* Remote is the one listening to 'response', timer that its timer has      *)
(* neither fired nor been cleared.                                           *)

\* this._requestID = 1
FirstRequestID == 1

\* the id a call gets, with the counter incremented before it is read
AllocID_OffByOne(s) == s.requestID + 1

\* the id a call gets: this._requestID++
AllocID(s) == s.requestID

\* Remote.prototype.call
RemoteCall(s, job) ==
  LET id == AllocID(s)
      s1 == [s EXCEPT !.requestID = s.requestID + 1,
                      !.pending = @ \cup {[c |-> job.c, cb |-> job.cb, id |-> id,
                                            cur |-> TRUE, timer |-> TRUE]},
                      !.sent = Append(@, [id |-> id, c |-> job.c])]
  IN Send(s1, [id |-> Num(id), method |-> Str("m"), params |-> Num(job.c)])

\* Responses matched to the Pending Calls in any order, whatever their id
Matching_AnyId(s, id) == {p \in s.pending : p.cur}

\* the Pending Calls of the listening Remote a Response with this id selects
Matching(s, id) == {p \in s.pending : p.cur /\ Num(p.id) = id}

\* callCallback (connection.js): the callback of a call() made without one
CallCallback(s, err) == IF Truthy(err) THEN Emit(s, "error") ELSE s

\* callWrapper (connection.js) of Pending Call h: 'time', then the callback
CallWrapper(s, h, err, res) ==
  IF h.cb
  THEN [Emit(s, "time") EXCEPT !.cbs = Append(@, [c |-> h.c, err |-> err, res |-> res]),
                               !.called = @ \cup {h.c}]
  ELSE CallCallback(Emit(s, "time"), err)

\* the Remote's 'response' listener
OnResponse(s, res) ==
  IF res.id = Null \/ res.id = Undef THEN s
  ELSE IF Matching(s, res.id) = {} THEN s
  ELSE LET h == CHOOSE p \in Matching(s, res.id) : TRUE
           err == IF Truthy(res.error) THEN Err(res.error) ELSE res.error
           s1 == CallWrapper(s, h, err, res.result)
       IN [s1 EXCEPT !.pending = @ \ {h}]

\* onTimeout giving the call up when its timer expires while connected
OnTimeout_GivesUp(s, p) ==
  IF s.connected
  THEN [Emit(s, "timeout") EXCEPT !.pending = @ \ {p}]
  ELSE [s EXCEPT !.queue = Append(@, [c |-> p.c, str |-> TRUE, cb |-> p.cb]),
                 !.pending = @ \ {p}]

\* onTimeout of Pending Call p
OnTimeout(s, p) ==
  IF s.connected
  THEN [Emit(s, "timeout") EXCEPT
          !.pending = (@ \ {p}) \cup (IF p.cur THEN {[p EXCEPT !.timer = FALSE]} ELSE {})]
  ELSE [s EXCEPT !.queue = Append(@, [c |-> p.c, str |-> TRUE, cb |-> p.cb]),
                 !.pending = @ \ {p}]

----------------------------------------------------------------------------
(* connection.js: calls *)

\* Connection.prototype._createCall
CreateCall(s, job) ==
  IF ~job.str THEN Throw(s)
  ELSE IF ~s.remote THEN Throw(s)
  ELSE RemoteCall(s, job)

\* Connection.prototype.call
Call(s, job) ==
  IF s.connected THEN CreateCall(s, job)
  ELSE [s EXCEPT !.queue = Append(@, job)]

\* self._queue.forEach(...); self._queue = []  (a throw leaves the loop and the handler)
RECURSIVE Flush(_, _)
Flush(s, q) ==
  IF q = <<>> THEN [s EXCEPT !.queue = <<>>]
  ELSE LET s1 == CreateCall(s, Head(q))
       IN IF s1.thrown THEN s1 ELSE Flush(s1, Tail(q))

\* cleanup
Cleanup(s) ==
  [s EXCEPT !.connected = FALSE, !.remote = FALSE, !.curClose = FALSE,
            !.curConnect = FALSE, !.hasCleanup = FALSE]

\* Connection.prototype.reconnect
Reconnect(s) ==
  LET s1 == IF s.hasCleanup THEN Cleanup(s) ELSE s
      s2 == IF s1.connected THEN SocketEnd(s1) ELSE s1
  IN [s2 EXCEPT !.timers = Append(@, [port |-> s2.port, host |-> s2.host])]

\* connect() arming its hooks on the first attempt only
Connect_NoRearm(s, p, h) ==
  [s EXCEPT !.port = p, !.host = h,
            !.sock = "connecting", !.closePending = FALSE, !.nconn = @ + 1,
            !.curConnect = (s.nconn = 0),
            !.curClose = (s.nconn = 0),
            !.hasCleanup = TRUE]

\* Connection.prototype.connect
Connect(s, p, h) ==
  [s EXCEPT !.port = p, !.host = h,
            !.sock = "connecting", !.closePending = FALSE, !.nconn = @ + 1,
            !.staleConnect = @ + (IF s.curConnect THEN 1 ELSE 0),
            !.curConnect = TRUE,
            !.staleClose = @ + (IF s.curClose THEN 1 ELSE 0),
            !.curClose = TRUE,
            !.hasCleanup = TRUE]

\* end() closing the socket and disarming the hooks before it looks at connected
End_ClosesFirst(s) ==
  IF s.connected /\ s.hasCleanup
  THEN [SocketEnd(Cleanup(s)) EXCEPT !.ended = TRUE]
  ELSE Throw(SocketEnd(Cleanup(s)))

\* Connection.prototype.end
End(s) ==
  IF s.connected
  THEN IF s.hasCleanup THEN [SocketEnd(Cleanup(s)) EXCEPT !.ended = TRUE] ELSE Throw(s)
  ELSE Throw(s)

\* a listener of the Connection's 'connect' event, run by emit: l says whether
\* it calls end(), calls call(method, callback), or does neither
ConnectListener(s, l) ==
  CASE l = "end" -> End(s)
    [] l = "call" -> Call([s EXCEPT !.ncalls = @ + 1],
                          [c |-> s.ncalls + 1, str |-> TRUE, cb |-> TRUE])
    [] OTHER -> s

\* onRPCClientConnect leaving the 'response' listeners of earlier Remotes in place
OnRPCClientConnect_KeepsListeners(s, l) ==
  LET s1 == [s EXCEPT !.remote = TRUE,
                      !.requestID = FirstRequestID,
                      !.sent = <<>>,
                      !.connected = TRUE]
      s2 == ConnectListener(Emit(s1, "connect"), l)
  IN IF s2.thrown THEN s2 ELSE Flush(s2, s2.queue)

\* onRPCClientConnect
OnRPCClientConnect(s, l) ==
  LET s1 == [s EXCEPT !.pending = {[p EXCEPT !.cur = FALSE] : p \in {q \in @ : q.timer}},
                      !.remote = TRUE,
                      !.requestID = FirstRequestID,
                      !.sent = <<>>,
                      !.connected = TRUE]
      s2 == ConnectListener(Emit(s1, "connect"), l)
  IN IF s2.thrown THEN s2 ELSE Flush(s2, s2.queue)

\* the socket's 'connect': every once-hook fires, the oldest first
RECURSIVE RunConnectHooks(_, _)
RunConnectHooks(s, l) ==
  IF s.thrown THEN s
  ELSE IF s.staleConnect > 0
    THEN RunConnectHooks(OnRPCClientConnect([s EXCEPT !.staleConnect = @ - 1], l), l)
  ELSE IF s.curConnect THEN OnRPCClientConnect([s EXCEPT !.curConnect = FALSE], l)
  ELSE s

\* the socket's 'close': the Connection's own 'close', then every hook that was on
\* the socket when the event began
RECURSIVE Times(_, _)
Times(s, n) == IF n = 0 THEN s ELSE Times(Reconnect(s), n - 1)

CloseHooks(s) == s.staleClose + (IF s.curClose THEN 1 ELSE 0)

OnSocketClose(s) == Times(Emit(s, "close"), CloseHooks(s))

----------------------------------------------------------------------------
(* connection.js: inbound *)

\* result() without the test of the id
Result_AlwaysAnswers(s, req, err, res) ==
  IF Truthy(err)
  THEN Send(s, [id |-> req.id, result |-> Null, error |-> MessageOf(err)])
  ELSE Send(s, [id |-> req.id, result |-> res, error |-> Null])

\* result() testing the id with if (req.id)
Result_IdTruthy(s, req, err, res) ==
  IF Truthy(req.id) THEN Result_AlwaysAnswers(s, req, err, res) ELSE s

\* result() passing res on beside the error
Result_KeepsResult(s, req, err, res) ==
  IF req.id # Null
  THEN IF Truthy(err)
       THEN Send(s, [id |-> req.id, result |-> res, error |-> MessageOf(err)])
       ELSE Send(s, [id |-> req.id, result |-> res, error |-> Null])
  ELSE s

\* result(err, res) of _handleRequest
Result(s, req, err, res) ==
  IF req.id # Null
  THEN IF Truthy(err)
       THEN Send(s, [id |-> req.id, result |-> Null, error |-> MessageOf(err)])
       ELSE Send(s, [id |-> req.id, result |-> res, error |-> Null])
  ELSE s

\* method.apply(this, params) inside try/catch.  What the handler does with its
\* continuation is the behaviour b: "ok" result(null, v); "err" result(e); "both"
\* result(e, v); "throw" throw e; "okThenThrow" result(null, v), then throw e;
\* "twice" result(null, v) two times; "none" it never calls it
Invoke(s, req, b) ==
  CASE b.kind = "ok" -> Result(s, req, Null, b.v)
    [] b.kind = "err" -> Result(s, req, b.e, Undef)
    [] b.kind = "both" -> Result(s, req, b.e, b.v)
    [] b.kind = "throw" -> Result(s, req, b.e, Undef)
    [] b.kind = "okThenThrow" -> Result(Result(s, req, Null, b.v), req, b.e, Undef)
    [] b.kind = "twice" -> Result(Result(s, req, Null, b.v), req, Null, b.v)
    [] OTHER -> s

\* Connection.prototype._handleRequest
HandleRequest(s, req, b) ==
  IF req.method.k = "str" /\ req.method.v \in DOMAIN s.methods
  THEN Invoke(s, req, b)
  ELSE Result(s, req, Err(Str("Method Not Found")), Undef)

\* the parser's callback: classify the decoded object and dispatch it
OnObject(s, obj, b) ==
  IF obj.result # Undef \/ obj.error # Undef
  THEN OnResponse(Emit(s, "response"), obj)
  ELSE IF obj.id # Null
  THEN HandleRequest(Emit(s, "request"), obj, b)
  ELSE HandleRequest(Emit(s, "notification"), obj, b)

\* the parser's 'error' handler without the destroy
OnParseError_NoDestroy(s) == Emit(Reconnect(s), "error")

\* the parser's 'error' handler
OnParseError(s) == Emit(Reconnect(SocketDestroy(s)), "error")

\* expose() leaving a key that has a handler as it is
Expose_KeepsFirst(m, name, service) ==
  LET module == IF Truthy(name) /\ TypeOf(name) = "string" THEN name.v \o "." ELSE ""
      svc == IF Truthy(service) THEN service ELSE name
      new == IF TypeOf(svc) = "function" THEN [k \in {StringOf(name)} |-> svc]
             ELSE [k \in {module \o p : p \in {q \in DOMAIN Props(svc) :
                                                  TypeOf(Props(svc)[q]) = "function"}} |->
                     Bind(Props(svc)[CHOOSE p \in DOMAIN Props(svc) : k = module \o p], svc)]
  IN [k \in DOMAIN m \cup DOMAIN new |-> IF k \in DOMAIN m THEN m[k] ELSE new[k]]

\* Connection.prototype.expose, on the registry m (this._methods)
Expose(m, name, service) ==
  LET swap == ~Truthy(service) /\ TypeOf(name) = "object"
      svc == IF swap THEN name ELSE service
      nm == IF swap THEN Null ELSE name
      module == IF Truthy(nm) THEN StringOf(nm) \o "." ELSE ""
      fns == {p \in DOMAIN Props(svc) : TypeOf(Props(svc)[p]) = "function"}
  IN IF TypeOf(svc) = "function"
     THEN [k \in DOMAIN m \cup {StringOf(nm)} |-> IF k = StringOf(nm) THEN svc ELSE m[k]]
     ELSE IF TypeOf(svc) = "object"
     THEN [k \in DOMAIN m \cup {module \o p : p \in fns} |->
             IF \E p \in fns : k = module \o p
             THEN Bind(Props(svc)[CHOOSE p \in fns : k = module \o p], svc)
             ELSE m[k]]
     ELSE m

----------------------------------------------------------------------------
(* server.js: the Listener.  A Connection it made is [methods, calls]: its  *)
(* registry and the expose calls it received, in order.                     *)

\* Server.prototype.expose
ServerExpose(svcs, name, service) == Append(svcs, [name |-> name, service |-> service])

\* new Connection(socket), as far as expose looks at it
NewConnection == [methods |-> <<>>, calls |-> <<>>]

\* connection.expose(service.name, service.service) for each service, in order
RECURSIVE ForEachService(_, _)
ForEachService(c, svcs) ==
  IF svcs = <<>> THEN c
  ELSE ForEachService([methods |-> Expose(c.methods, Head(svcs).name, Head(svcs).service),
                       calls |-> Append(c.calls, Head(svcs))],
                      Tail(svcs))

\* the 'connection' listener walking the services from the last to the first
OnConnection_Backwards(svcs) ==
  ForEachService(NewConnection, [i \in 1..Len(svcs) |-> svcs[Len(svcs) + 1 - i]])

\* the 'connection' listener of the Server
OnConnection(svcs) == ForEachService(NewConnection, svcs)

----------------------------------------------------------------------------
(* What the user, the peer and the handlers may supply. *)

Ports == {Num(3000)}
Hosts == {Str("localhost"), Null}

\* method names of inbound Requests: "echo" may be exposed, "nope" never is
Exposable == {<<Str("echo"), Fn("echo")>>}
InMethods == {"echo", "nope"}

\* what expose() is called with: a name (the empty string included) with a function
\* or a service object, or a service object alone
ExposeNames == {Str("math"), Str("")}
ExposeFns == {Fn("f"), Fn("g")}
ExposeObjs == {Obj("service"), Obj("other")}
ExposeArgs ==
  {<<n, s>> : n \in ExposeNames, s \in ExposeFns \cup ExposeObjs}
  \cup {<<o, Undef>> : o \in ExposeObjs}

\* ids of inbound Requests and Notifications (Undef: the key is absent)
ReqIds == {Null, Undef, Num(0), Num(1)}

\* values a handler hands to its continuation, error values, and thrown values
Values == {Num(5), Null, Undef}
ErrVals == {Err(Str("boom")), Err(Str("")), Str("oops")}
ThrowVals == ErrVals \cup {Null}

Silent == [kind |-> "none"]

Behaviours ==
  {[kind |-> "ok", v |-> v] : v \in Values}
  \cup {[kind |-> "err", e |-> e] : e \in ErrVals}
  \cup {[kind |-> "throw", e |-> e] : e \in ThrowVals}
  \cup {[kind |-> "both", e |-> Err(Str("boom")), v |-> Num(5)]}
  \cup {[kind |-> "okThenThrow", v |-> Num(5), e |-> Err(Str("boom"))],
        [kind |-> "twice", v |-> Num(5)],
        Silent}

\* handlers that end with an application error
Failures ==
  {[kind |-> "err", e |-> e] : e \in ErrVals} \cup {[kind |-> "throw", e |-> e] : e \in ErrVals}

Requests ==
  {[id |-> i, method |-> Str(m), result |-> Undef, error |-> Undef] :
     i \in ReqIds, m \in InMethods}

\* Requests naming keys of the registry
RegistryRequests ==
  {[id |-> Num(1), method |-> Str(m), result |-> Undef, error |-> Undef] :
     m \in {"math", "math.add", "add", ".add"}}

\* ids of inbound Responses
RespIds == {Null, Undef} \cup {Num(i) : i \in 1..MaxCalls}

Responses ==
  {[id |-> i, method |-> Undef, result |-> Str("r"), error |-> Null] : i \in RespIds}
  \cup {[id |-> i, method |-> Undef, result |-> Null, error |-> Str("e")] : i \in RespIds}

----------------------------------------------------------------------------
(* Actions: one per entry point of the code. *)

Init ==
  /\ role \in {"client", "server"}
  /\ sock = IF role = "client" THEN "idle" ELSE "open"
  /\ closePending = FALSE
  /\ connected = FALSE
  /\ remote = FALSE
  /\ ended = FALSE
  /\ requestID = 0
  /\ pending = {}
  /\ queue = <<>>
  /\ port = Undef /\ host = Undef
  /\ hasCleanup = FALSE
  /\ curClose = FALSE /\ curConnect = FALSE
  /\ staleClose = 0 /\ staleConnect = 0
  /\ timers = <<>>
  /\ methods = <<>>
  /\ services = <<>>
  /\ accepted = <<>>
  /\ sent = <<>>
  /\ ncalls = 0 /\ nconn = 0
  /\ called = {}
  /\ op = [kind |-> "new"]
  /\ out = <<>> /\ ev = <<>> /\ cbs = <<>>
  /\ thrown = FALSE

\* the user: connection.connect(port, host) on a fresh client
UserConnect ==
  /\ role = "client" /\ sock = "idle"
  /\ \E p \in Ports, h \in Hosts :
       Becomes(Connect(St, p, h), [kind |-> "connect"])

\* the user: connection.connect(port, host) once more, on a client that is
\* Connecting or Connected.  What socket.connect() does to a socket that is
\* connecting or open is left to the socket: it goes on as it was, or it starts
\* to connect again
UserConnectAgain ==
  /\ role = "client" /\ sock \in {"connecting", "open"} /\ ~closePending
  /\ nconn < MaxConnects
  /\ \E p \in Ports, h \in Hosts, restart \in BOOLEAN :
       Becomes([Connect(St, p, h) EXCEPT !.sock = IF restart THEN @ ELSE sock],
               [kind |-> "connectAgain"])

\* the user: connection.call(method, ..., callback), or without a callback
UserCall(callbacks) ==
  /\ ncalls < MaxCalls
  /\ \E str \in BOOLEAN, cb \in callbacks :
       LET job == [c |-> ncalls + 1, str |-> str, cb |-> cb]
       IN Becomes(Call([St EXCEPT !.ncalls = @ + 1], job), [kind |-> "call", job |-> job])

\* the user: connection.end(), in any state
UserEnd ==
  /\ sock \in {"idle", "connecting", "open", "ended", "closed"}
  /\ Becomes(End(St), [kind |-> "end"])

\* the user: connection.expose(name, service), or connection.expose(service)
UserExpose(args) ==
  /\ args # {}
  /\ \E a \in args :
    Becomes([St EXCEPT !.methods = Expose(@, a[1], a[2])],
            [kind |-> "expose", name |-> a[1], service |-> a[2]])

\* the user: server.expose(name, service)
UserServerExpose ==
  /\ Len(services) < MaxServices
  /\ \E a \in ExposeArgs :
       Becomes([St EXCEPT !.services = ServerExpose(@, a[1], a[2])],
               [kind |-> "serverExpose", name |-> a[1], service |-> a[2]])

\* the Server: 'connection' (a socket was accepted)
ServerConnection ==
  /\ Len(accepted) < MaxAccepted
  /\ Becomes([St EXCEPT !.accepted = Append(@, OnConnection(services))],
             [kind |-> "connection"])

\* the socket: 'connect'
SockConnect ==
  /\ sock = "connecting" /\ ~closePending
  /\ Becomes(RunConnectHooks([St EXCEPT !.sock = "open"], "none"),
             [kind |-> "sockConnect"])

\* the socket: 'connect', with a listener of the Connection's 'connect' that calls
\* end() or call()
SockConnectListened ==
  /\ sock = "connecting" /\ ~closePending
  /\ \E l \in {"end", "call"} :
       /\ l = "call" => ncalls < MaxCalls
       /\ Becomes(RunConnectHooks([St EXCEPT !.sock = "open"], l),
                  [kind |-> "sockConnect", listener |-> l])

\* the socket: the connect attempt fails ('error', then 'close')
SockFail ==
  /\ sock = "connecting" /\ ~closePending
  /\ Becomes(OnSocketClose(Emit([St EXCEPT !.sock = "closed"], "error")),
             [kind |-> "sockFail"])

\* the socket: the peer closes, or our end() completes ('close')
SockClose ==
  /\ sock \in {"open", "ended"} /\ ~closePending
  /\ Becomes(OnSocketClose([St EXCEPT !.sock = "closed"]), [kind |-> "sockClose"])

\* the socket: a transport error on an established socket ('error', then 'close')
SockError ==
  /\ sock \in {"open", "ended"} /\ ~closePending
  /\ Becomes(OnSocketClose(Emit([St EXCEPT !.sock = "closed"], "error")),
             [kind |-> "sockError"])

\* the socket: the 'close' of a destroyed socket
SockDestroyed ==
  /\ closePending
  /\ Becomes(OnSocketClose([St EXCEPT !.closePending = FALSE]), [kind |-> "sockDestroyed"])

\* the socket: 'data' holding one complete Response
DataResponse ==
  /\ sock \in {"open", "ended"} /\ ~closePending
  /\ \E obj \in Responses :
       Becomes(OnObject(St, obj, Silent), [kind |-> "data", obj |-> obj, b |-> Silent])

\* the socket: 'data' holding one complete Request or Notification; b is what the
\* handler registered for it, if any, does
DataRequest(requests, behaviours) ==
  /\ sock \in {"open", "ended"} /\ ~closePending
  /\ \E obj \in requests :
       \E b \in (IF obj.method.v \in DOMAIN methods THEN behaviours ELSE {Silent}) :
          Becomes(OnObject(St, obj, b), [kind |-> "data", obj |-> obj, b |-> b])

\* the socket: 'data' the tokenizer rejects
BadData ==
  /\ sock \in {"open", "ended"} /\ ~closePending
  /\ Becomes(OnParseError(St), [kind |-> "badData"])

\* the reconnect timer armed first expires
ReconnectTimer ==
  /\ timers # <<>> /\ ~closePending
  /\ nconn < MaxConnects
  /\ Becomes(Connect([St EXCEPT !.timers = Tail(@)], Head(timers).port, Head(timers).host),
             [kind |-> "reconnectTimer", port |-> Head(timers).port, host |-> Head(timers).host])

\* the timer of a Pending Call expires
CallTimer ==
  /\ ~closePending
  /\ \E p \in pending :
       /\ p.timer
       /\ Becomes(OnTimeout(St, p), [kind |-> "callTimer", p |-> p])

\* the Connection as a caller: its life cycle, its calls (made with a callback)
\* and their Responses
Next ==
  \/ UserConnect \/ UserCall({TRUE}) \/ UserEnd
  \/ SockConnect \/ SockFail \/ SockClose \/ SockError \/ SockDestroyed
  \/ DataResponse \/ BadData
  \/ ReconnectTimer \/ CallTimer

Spec == Init /\ [][Next]_vars

\* ... where every reconnect timer armed expires, a destroyed socket emits its
\* 'close', and a connect attempt ends, with 'connect' or with 'error' and 'close'
FairSpec ==
  /\ Spec
  /\ WF_vars(ReconnectTimer)
  /\ WF_vars(SockDestroyed)
  /\ WF_vars(SockConnect \/ SockFail)

\* ... whose user may call connect() again
NextAgain == Next \/ UserConnectAgain

SpecAgain == Init /\ [][NextAgain]_vars

\* ... whose user listens to 'connect' and calls end() or call() there
NextListened == Next \/ SockConnectListened

SpecListened == Init /\ [][NextListened]_vars

\* both peers of a call: a Connection that makes calls, with a callback or
\* without, and receives their Responses, and that receives Requests for
\* handlers that fail, throw or do not exist
NextErrors ==
  \/ UserConnect \/ UserExpose(Exposable) \/ UserCall(BOOLEAN)
  \/ SockConnect \/ SockClose \/ ReconnectTimer
  \/ DataResponse \/ DataRequest(Requests, Failures)

SpecErrors == Init /\ [][NextErrors]_vars

\* the life cycle alone: a Connection that issues no calls and receives no objects
\* (no call and no Response writes a field that connect, reconnect, cleanup or end
\* reads), with the same fairness
NextReconnect ==
  \/ UserConnect \/ UserEnd
  \/ SockConnect \/ SockFail \/ SockClose \/ SockError \/ SockDestroyed
  \/ BadData
  \/ ReconnectTimer

FairReconnect ==
  /\ Init /\ [][NextReconnect]_vars
  /\ WF_vars(ReconnectTimer)
  /\ WF_vars(SockDestroyed)
  /\ WF_vars(SockConnect \/ SockFail)

\* the Connection as a callee: its life cycle, its registry and the Requests and
\* Notifications it receives, with handlers of every kind
NextDispatch ==
  \/ UserConnect \/ UserEnd \/ UserExpose(Exposable)
  \/ SockConnect \/ SockFail \/ SockClose \/ SockError \/ SockDestroyed
  \/ DataRequest(Requests, Behaviours) \/ BadData
  \/ ReconnectTimer

SpecDispatch == Init /\ [][NextDispatch]_vars

\* the registry: expose() in each of its forms, and Requests for the keys
NextRegistry ==
  \/ UserExpose(ExposeArgs)
  \/ DataRequest(RegistryRequests, {[kind |-> "ok", v |-> Num(5)]})

SpecRegistry == Init /\ [][NextRegistry]_vars

\* the Listener: its services, the Connections it makes, and the expose() of one
\* Connection that exists
NextListener ==
  \/ UserServerExpose
  \/ ServerConnection
  \/ UserExpose(Exposable)

SpecListener == Init /\ [][NextListener]_vars

----------------------------------------------------------------------------
(* Properties of the dispatch of inbound objects (SpecDispatch). *)

\* the last operation was the dispatch of a Request or Notification
Dispatched == op.kind = "data" /\ op.obj.result = Undef /\ op.obj.error = Undef

\* ... whose method has a handler in the registry
Registered == op.obj.method.v \in DOMAIN methods

\* the written object w has a value other than null under key f
NonNull(w, f) == f \in DOMAIN w /\ w[f] # Null

\* the Responses among what the last operation wrote
ResponsesOut == {i \in 1..Len(out) : "method" \notin DOMAIN out[i]}

\* C2: an inbound Notification (id null) causes no write to the transport, whether
\* its method has a handler that succeeds, fails or throws, or has none.
C2_NotificationNeverWrites ==
  (Dispatched /\ op.obj.id = Null) => out = <<>>

C2_Witness ==
  /\ Dispatched /\ op.obj.id = Null /\ Registered
  /\ op.b.kind = "throw" /\ ev = <<"notification">>

----------------------------------------------------------------------------
(* Properties of the life cycle and of the calls (Spec). *)

\* the calls of a sequence of jobs or of Requests sent
CallsOf(q) == [i \in 1..Len(q) |-> q[i].c]

\* C1: a call() made while not Connected is appended to the deferred-call queue
\* and writes nothing; the step into Connected writes every queued call as a
\* Request exactly once, in the order of the queue, and leaves the queue empty.
C1_QueueFlushedOnceInOrder ==
  [][/\ (op'.kind = "call" /\ ~connected) =>
           (queue' = Append(queue, op'.job) /\ out' = <<>>)
     /\ (~connected /\ connected') =>
           /\ queue' = <<>>
           /\ CallsOf(sent') = CallsOf(queue)
           /\ Len(out') = Len(queue)]_vars

\* C4: once end() has closed a Connected Connection, no reconnect timer is armed
\* and connect() is not invoked again, whatever happens next.
C4_NoReconnectAfterEnd ==
  [][ended => (Len(timers') <= Len(timers) /\ nconn' = nconn)]_vars

\* C6: the k-th Request the Call Correlator of a connection writes carries id k,
\* whether the call was made while Connected or was deferred and flushed.
C6_KthRequestHasIdK ==
  /\ \A k \in 1..Len(sent) : sent[k].id = k
  /\ \A i \in 1..Len(out) :
       "method" \in DOMAIN out[i] => out[i].id = Num(Len(sent) - Len(out) + i)

\* a call deferred during the first connection is flushed on the second with id 1
C6_Witness ==
  /\ op.kind = "sockConnect" /\ nconn = 2
  /\ sent = <<[id |-> 1, c |-> 2]>>
  /\ out = <<[id |-> Num(1), method |-> Str("m"), params |-> Num(2)]>>

\* the Pending Calls of the listening Correlator whose id is that of Response r
Addressed(r) == {p \in pending : p.cur /\ r.id = Num(p.id)}

\* C7: a Response resolves the Pending Call with its id and no other: the entry
\* (and its timer) is removed and its callback is invoked once with the error and
\* the result; a Response with no such Pending Call invokes no callback and
\* leaves every Pending Call as it was.
C7_ResponseResolvesItsCall ==
  [][(op'.kind = "data" /\ op'.obj \in Responses) =>
       IF Addressed(op'.obj) = {}
       THEN pending' = pending /\ cbs' = <<>>
       ELSE \E h \in Addressed(op'.obj) :
              /\ Addressed(op'.obj) = {h}
              /\ pending' = pending \ {h}
              /\ cbs' = <<[c |-> h.c,
                          err |-> IF op'.obj.error = Null THEN Null
                                  ELSE Err(op'.obj.error),
                          res |-> op'.obj.result]>>]_vars

\* the Response of the second call arrives while the first is still pending
C7_Witness ==
  /\ op.kind = "data" /\ op.obj.id = Num(2)
  /\ cbs # <<>> /\ cbs[1].c = 2
  /\ \E p \in pending : p.cur /\ p.id = 1 /\ p.c = 1 /\ p.timer

\* C9: bytes the tokenizer rejects destroy the socket and raise 'error' on the
\* Connection exactly once.
C9_DecodeErrorDestroysAndReports ==
  op.kind = "badData" => (sock = "closed" /\ closePending /\ ev = <<"error">>)

C9_Witness ==
  /\ op.kind = "badData" /\ role = "client" /\ sock = "closed" /\ ev = <<"error">>

----------------------------------------------------------------------------
(* Properties of reconnection (FairReconnect, FairSpec). *)

\* the last operation was a 'close' of the socket
Closed == op.kind \in {"sockClose", "sockError", "sockFail", "sockDestroyed"}

\* a client that connect() was called on and end() was not
LiveClient == role = "client" /\ nconn > 0 /\ ~ended

\* C5: when the socket of a client that was not ended closes, the Connection is
\* not Connected and a reconnect timer holds the port and host of the last
\* connect(); when the timer expires connect is invoked with them and arms the
\* 'connect' and 'close' hooks again; so every pending timer leads to a connect
\* attempt, and every attempt ends Connected or with the next timer armed.
C5_ClosedClientReconnects ==
  /\ [](LiveClient =>
          /\ port \in Ports /\ host \in Hosts
          /\ Closed =>
               /\ ~connected
               /\ timers # <<>>
               /\ \A i \in 1..Len(timers) : timers[i] = [port |-> port, host |-> host]
          /\ op.kind = "reconnectTimer" =>
               /\ sock = "connecting" /\ op.port = port /\ op.host = host
               /\ curClose /\ curConnect /\ hasCleanup)
  /\ [][LiveClient => (port' = port /\ host' = host)]_vars
  /\ [][(LiveClient /\ op'.kind = "sockConnect") => connected']_vars
  /\ (LiveClient /\ timers # <<>> /\ nconn < MaxConnects) ~> (sock = "connecting")
  /\ (LiveClient /\ sock = "connecting") ~> (connected \/ timers # <<>>)

\* a first attempt failed, the retry connected
C5_Witness ==
  /\ LiveClient /\ connected /\ nconn = 2 /\ op.kind = "sockConnect"
  /\ port \in Ports /\ host \in Hosts /\ timers = <<>>

\* call c, with a string for its method, is in the deferred-call queue
Deferred(c) == \E i \in 1..Len(queue) : queue[i].c = c /\ queue[i].str

\* C10: a call() made on a Connection the Listener created for an accepted socket
\* is eventually written as a Request: it does not stay deferred for ever.
C10_ServerSideCallIsSent ==
  \A c \in 1..MaxCalls : (role = "server" /\ Deferred(c)) ~> ~Deferred(c)

----------------------------------------------------------------------------
(* Properties of the registry (SpecRegistry) and of the Listener            *)
(* (SpecListener).                                                          *)

\* the names of the entries of service object o that are functions
FunctionEntries(o) == {p \in DOMAIN Props(o) : Props(o)[p].k = "fn"}

\* the registry after an expose that adds handler h(p) under key pre \o p for each
\* p in ps, and the last Request answered by a handler exactly when its method is
\* a key of the registry
Registers(pre, ps, h(_)) ==
  /\ DOMAIN methods' = DOMAIN methods \cup {pre \o p : p \in ps}
  /\ \A p \in ps : methods'[pre \o p] = h(p)
  /\ \A k \in DOMAIN methods \ {pre \o p : p \in ps} : methods'[k] = methods[k]

\* a Request is answered by a handler exactly when its method is a key
KeysReachable ==
  Dispatched =>
    (Registered <=> out = <<[id |-> op.obj.id, result |-> Num(5), error |-> Null]>>)

\* C12 as claimed: expose(name, fn) adds the single key name; expose(name, map)
\* adds the key "name.method" for each function entry of map, for every name;
\* expose(map) adds the bare method names; no other key is added or changed, and
\* a key that had a handler gets the new one.
C12_ExposeRegistersExactly ==
  /\ [][op'.kind = "expose" =>
          LET n == op'.name
              s == op'.service
          IN CASE s.k = "fn" -> Registers(n.v, {""}, LAMBDA p : s)
               [] s.k = "obj" ->
                    Registers(n.v \o ".", FunctionEntries(s), LAMBDA p : Bind(Props(s)[p], s))
               [] OTHER ->
                    Registers("", FunctionEntries(n), LAMBDA p : Bind(Props(n)[p], n))]_vars
  /\ []KeysReachable

\* C12 as amended: as claimed, but expose(name, map) adds "name.method" only for a
\* name that is not the empty string; with the empty string it adds the bare
\* method names, as expose(map) does.
C12_ExposeRegistersExactlyNamed ==
  /\ [][op'.kind = "expose" =>
          LET n == op'.name
              s == op'.service
          IN CASE s.k = "fn" -> Registers(n.v, {""}, LAMBDA p : s)
               [] s.k = "obj" ->
                    Registers(IF n.v = "" THEN "" ELSE n.v \o ".", FunctionEntries(s),
                              LAMBDA p : Bind(Props(s)[p], s))
               [] OTHER ->
                    Registers("", FunctionEntries(n), LAMBDA p : Bind(Props(n)[p], n))]_vars
  /\ []KeysReachable

\* expose("math", other) after expose("math", service): "math.add" is replaced,
\* "math.subtract" stays, the entry that is no function has no key
C12_Witness ==
  /\ op.kind = "expose" /\ op.name = Str("math") /\ op.service = Obj("other")
  /\ DOMAIN methods = {"math.add", "math.subtract"}
  /\ methods["math.add"] = Bind(Fn("plus"), Obj("other"))
  /\ methods["math.subtract"] = Bind(Fn("subtract"), Obj("service"))

\* the registry one expose(name, service) makes of an empty one
Alone(svc) == Expose(<<>>, svc.name, svc.service)

\* C11: the Connection the Listener makes for an accepted socket has received one
\* expose per service recorded so far, in the order of registration (so each key
\* has the handler of the last service that registers it); a Listener.expose()
\* records the service and changes neither a Connection the Listener made before
\* nor any other Connection that exists.
C11_ListenerReplicatesServices ==
  /\ [](\A i \in 1..Len(accepted) :
          /\ Len(accepted[i].calls) <= Len(services)
          /\ accepted[i].calls = SubSeq(services, 1, Len(accepted[i].calls)))
  /\ [][op'.kind = "connection" =>
          LET c == accepted'[Len(accepted')]
          IN /\ accepted' = Append(accepted, c)
             /\ c.calls = services
             /\ DOMAIN c.methods = UNION {DOMAIN Alone(services[i]) : i \in 1..Len(services)}
             /\ \A k \in DOMAIN c.methods :
                  \E i \in 1..Len(services) :
                     /\ k \in DOMAIN Alone(services[i])
                     /\ c.methods[k] = Alone(services[i])[k]
                     /\ \A j \in (i + 1)..Len(services) : k \notin DOMAIN Alone(services[j])
             /\ methods' = methods]_vars
  /\ [][op'.kind = "serverExpose" =>
          /\ services' = Append(services, [name |-> op'.name, service |-> op'.service])
          /\ accepted' = accepted
          /\ methods' = methods]_vars

\* two sockets accepted, one before and one after the second Listener.expose()
C11_Witness ==
  /\ op.kind = "connection" /\ Len(accepted) = 2
  /\ services = <<[name |-> Str("math"), service |-> Fn("f")],
                  [name |-> Str("math"), service |-> Fn("g")]>>
  /\ accepted[1].calls = <<services[1]>> /\ accepted[1].methods["math"] = Fn("f")
  /\ accepted[2].calls = services /\ accepted[2].methods["math"] = Fn("g")
  /\ DOMAIN methods = {"echo"}

----------------------------------------------------------------------------
(* Properties of misuse and of the ids over reconnects (Spec). *)

\* C13: end() on a Connection that is not Connected (never connected, Connecting,
\* waiting for a reconnect, or ended before) throws and changes nothing: the socket
\* is not closed, and the hooks, the reconnect timers, the deferred-call queue
\* and the Pending Calls are as before; nothing is written or emitted.
C13_EndWhileNotConnectedFails ==
  [][(op'.kind = "end" /\ ~connected) =>
       /\ thrown'
       /\ UNCHANGED <<sock, closePending, connected, remote, ended, hasCleanup,
                      curClose, curConnect, staleClose, staleConnect, timers,
                      queue, pending, requestID, sent, port, host, methods>>
       /\ out' = <<>> /\ ev' = <<>> /\ cbs' = <<>>]_vars

\* end() while waiting for a reconnect, with a call pending and a call deferred
C13_Witness ==
  /\ op.kind = "end" /\ thrown /\ ~connected /\ ~ended
  /\ role = "client" /\ sock = "closed" /\ timers # <<>>
  /\ pending # {} /\ queue # <<>>

\* the Requests among the objects w, as the ids they carry
RequestIds(w) == {w[i].id.v : i \in {j \in 1..Len(w) : "method" \in DOMAIN w[j]}}

\* C14: over the life of a Connection the ids of its Requests only grow: a Request
\* written by a step has an id above that of every Request written before it, on
\* this connection or on the one before it, and the id of no call that is still
\* pending.
C14_IdsGrowOverReconnects ==
  [][\A id \in RequestIds(out') :
       /\ \A k \in 1..Len(sent) : sent[k].id < id
       /\ \A p \in pending : p.id # id]_vars

----------------------------------------------------------------------------
(* Properties of the timers of calls (Spec). *)

\* C15: when the timer of a call expires while the Connection is not Connected,
\* the Pending Call is removed and the call is appended to the deferred-call
\* queue; the step into Connected writes every deferred call as a Request; and
\* whenever the timer of a call expires, before or after the reconnect, the call
\* is not lost: it is still a Pending Call of the Correlator that listens to
\* Responses, or it is deferred.
C15_TimedOutCallIsRetried ==
  /\ [][(op'.kind = "callTimer" /\ ~connected) =>
          /\ pending' = pending \ {op'.p}
          /\ queue' = Append(queue, [c |-> op'.p.c, str |-> TRUE, cb |-> op'.p.cb])
          /\ out' = <<>>]_vars
  /\ [][(~connected /\ connected') =>
          \A c \in 1..MaxCalls :
             Deferred(c) => \E k \in 1..Len(sent') : sent'[k].c = c]_vars
  /\ [][op'.kind = "callTimer" =>
          \/ \E p \in pending' : p.c = op'.p.c /\ p.cur
          \/ \E i \in 1..Len(queue') : queue'[i].c = op'.p.c /\ queue'[i].str]_vars

----------------------------------------------------------------------------
(* Properties of decode errors and of the classification of objects. *)

\* a client whose auto-reconnect is armed: connect() was called and neither
\* end() nor a reconnect has disarmed its hooks
Armed == role = "client" /\ hasCleanup

\* C16: a decode error arms a reconnect timer only on a client with auto-reconnect
\* armed; on the Connection of an accepted socket and on a Connection that end()
\* has closed it arms no timer, and no reconnect timer ever runs connect() on them.
C16_DecodeErrorReconnectsOnlyClient ==
  /\ [][(op'.kind = "badData" /\ ~Armed) => timers' = timers]_vars
  /\ [][op'.kind = "reconnectTimer" => (role = "client" /\ ~ended)]_vars

\* C17: an object without result and error whose id is absent is a Notification,
\* as one whose id is null: 'notification' is raised, not 'request', and nothing
\* is written.
C17_AbsentIdIsNotification ==
  (Dispatched /\ op.obj.id = Undef) => (ev = <<"notification">> /\ out = <<>>)

----------------------------------------------------------------------------
(* Properties of a repeated connect() (SpecAgain). *)

\* C18: with connect() called again on a client that is Connecting or Connected,
\* a Pending Call stays one that its Response can resolve for as long as the
\* Connection stays Connected; the step into Connected makes of every deferred
\* call one such Pending Call, written once; and a 'close' of the socket arms at
\* most one reconnect timer.
C18_ConnectAgainKeepsState ==
  /\ [][(connected /\ connected' /\ op'.kind \notin {"data", "callTimer"}) =>
          \A p \in pending : p.cur => p \in pending']_vars
  /\ [][(~connected /\ connected') =>
          /\ \A c \in 1..MaxCalls :
               Deferred(c) => \E p \in pending' : p.c = c /\ p.cur
          /\ Len(out') = Len(queue)]_vars
  /\ [][op'.kind \in {"sockClose", "sockError", "sockFail", "sockDestroyed"} =>
          Len(timers') <= Len(timers) + 1]_vars

----------------------------------------------------------------------------
(* Properties of misuse by the caller and by a handler. *)

\* C19: a call() whose method is not a string throws to its caller, Connected or
\* not, writes nothing and leaves the queue and the Pending Calls as they were; so
\* no such call is ever in the queue, and the step into Connected writes every
\* deferred call once and empties the queue.
C19_NonStringMethodRejectedAtCall ==
  /\ [][(op'.kind = "call" /\ ~op'.job.str) =>
          (thrown' /\ out' = <<>> /\ queue' = queue /\ pending' = pending)]_vars
  /\ [](\A i \in 1..Len(queue) : queue[i].str)
  /\ [][(~connected /\ connected') =>
          (~thrown' /\ queue' = <<>> /\ CallsOf(sent') = CallsOf(queue))]_vars

\* C20: the dispatch of one inbound Request writes at most one Response, whatever
\* its handler does with the continuation: calls it once, calls it and then
\* throws, calls it twice, or never calls it.
C20_AtMostOneResponse ==
  (Dispatched /\ op.obj.id \notin {Null, Undef}) => Len(out) <= 1

----------------------------------------------------------------------------
(* Properties of the callbacks of calls (Spec). *)

\* C21: when the timer of a call expires while the Connection is Connected,
\* 'timeout' is raised and nothing else happens: the Pending Call stays (only its
\* timer is spent), no callback is invoked, nothing is written or queued; and a
\* Response with its id that arrives later on this connection invokes its
\* callback.
C21_TimeoutWhileConnectedOnlyReports ==
  /\ [][(op'.kind = "callTimer" /\ connected) =>
          /\ ev' = <<"timeout">> /\ cbs' = <<>> /\ out' = <<>> /\ ~thrown'
          /\ op'.p.cur =>
                pending' = (pending \ {op'.p}) \cup {[op'.p EXCEPT !.timer = FALSE]}
          /\ UNCHANGED <<queue, sent, requestID, connected, remote, sock, timers,
                         hasCleanup, curClose, curConnect>>]_vars
  /\ [][(op'.kind = "data" /\ op'.obj \in Responses) =>
          \A p \in pending :
             (p.cur /\ ~p.timer /\ Num(p.id) = op'.obj.id) =>
                (Len(cbs') = 1 /\ cbs'[1].c = p.c /\ p \notin pending')]_vars

\* the timer of a call expired while Connected; the call is still pending
C21_Witness ==
  /\ op.kind = "callTimer" /\ connected /\ ev = <<"timeout">>
  /\ pending = {[op.p EXCEPT !.timer = FALSE]} /\ op.p.cur

\* C22: the callback of one call() is invoked at most once: a step invokes the
\* callback of no call whose callback was invoked before, and of no call twice.
C22_CallbackAtMostOnce ==
  [][/\ \A i \in 1..Len(cbs') : cbs'[i].c \notin called
     /\ \A i, j \in 1..Len(cbs') : cbs'[i].c = cbs'[j].c => i = j]_vars

----------------------------------------------------------------------------
(* Properties of application errors (SpecErrors). *)

\* C23: an application error closes no connection and raises no 'error' on the
\* Connection, on either peer: the dispatch of a Request whose handler fails,
\* throws or does not exist, and the arrival of a Response, with an error or
\* without, leave the socket and the connection state as they were and emit no
\* 'error'; the error of a Response reaches the callback of its call only.
C23_ApplicationErrorStaysInCall ==
  [][op'.kind = "data" =>
       /\ UNCHANGED <<sock, closePending, connected, remote, ended, timers>>
       /\ \A i \in 1..Len(ev') : ev'[i] # "error"
       /\ \A i \in 1..Len(cbs') :
            \E h \in pending : h.cur /\ Num(h.id) = op'.obj.id /\ cbs'[i].c = h.c]_vars

----------------------------------------------------------------------------
(* Properties of the hooks and of the Correlator (SpecAgain, Spec). *)

\* C24: at most one reconnect timer is outstanding and at most one 'close' hook
\* is on the socket, at any moment; so when the socket of a client that was not
\* ended has closed (after a close, a transport error or a decode error), exactly
\* one reconnect timer is outstanding, and it makes one connect attempt.
C24_OneTimerOneHook ==
  /\ [](Len(timers) <= 1)
  /\ [](staleClose + (IF curClose THEN 1 ELSE 0) <= 1)
  /\ [](LiveClient /\ Closed => Len(timers) = 1)
  /\ [][op'.kind = "reconnectTimer" => (nconn' = nconn + 1 /\ timers' = <<>>)]_vars

\* C25: connected implies that a Correlator exists; a Request is written only by
\* a step that ends Connected with a Correlator; and no 'connect' of the socket
\* ends with the flush thrown out for want of a Correlator (the call at the head
\* of the queue, its method a string, not written), also when a listener of
\* 'connect' calls end() or call() before the flush.
C25_ConnectedHasCorrelator ==
  /\ [](connected => remote)
  /\ [][RequestIds(out') # {} => (connected' /\ remote')]_vars
  /\ [][op'.kind = "sockConnect" =>
          ~(thrown' /\ ~remote' /\ queue' # <<>> /\ Head(queue').str)]_vars

\* C26: one Correlator at most listens to the Responses: the Pending Calls a
\* Response can resolve are calls written on the current connection, no two with
\* the same id; a Response invokes at most one callback, that of such a call,
\* and leaves the Pending Calls of earlier connections as they were.
C26_OnlyCurrentCorrelatorListens ==
  /\ [](\A p \in pending : p.cur =>
          \E k \in 1..Len(sent) : sent[k] = [id |-> p.id, c |-> p.c])
  /\ [](\A p, q \in pending : (p.cur /\ q.cur /\ p.id = q.id) => p = q)
  /\ [][(op'.kind = "data" /\ op'.obj \in Responses) =>
          /\ Len(cbs') <= 1
          /\ \A i \in 1..Len(cbs') :
               \E k \in 1..Len(sent) : sent[k] = [id |-> op'.obj.id.v, c |-> cbs'[i].c]
          /\ \A p \in pending : ~p.cur => p \in pending']_vars

\* after a reconnect a Response with id 1 resolves call 2, written on this
\* connection with id 1, and not call 1, pending with id 1 since the connection
\* before
C26_Witness ==
  /\ op.kind = "data" /\ op.obj.id = Num(1) /\ nconn = 2
  /\ Len(cbs) = 1 /\ cbs[1].c = 2
  /\ \E p \in pending : ~p.cur /\ p.id = 1 /\ p.c = 1

====
